---- MODULE Spec2Model ----
(***************************************************************************)
(* Weekly report cache and orchestrator of the Dermora backend             *)
(* (backend/app/routers/reports.py) together with the stores it reads and  *)
(* writes.  Dates are day numbers, day 0 being a Monday.  One subject      *)
(* (user_id) is followed; a cache key is the week_start of a request.      *)
(*                                                                         *)
(* Every request handler is a coroutine on the single asyncio event loop   *)
(* of the server: a handler step runs from one await to the next.  The     *)
(* narrative oracle is called with the synchronous AzureOpenAI client, so  *)
(* the loop is held from the call until the oracle answers.                *)
(*                                                                         *)
(* The functions of ImprovementAnalyzer (services/improvement_analyzer.py) *)
(* are operators, applied to sample dates and tables under SpecAnalyzer.   *)
(***************************************************************************)
EXTENDS Integers, FiniteSets, Sequences, TLC

\* ---- bounds of the model ----
NumProcs == 2
MaxDate == 7
MaxWeekday == 1
MaxImages == 2
MaxOracleCalls == 2
MaxReportIds == 2
MaxPerDay == 2
MaxTrackedWeekday == 2
MaxRows == 3
MaxDay == 13
MaxHistory == 5
MaxCheckIns == 4
MaxStreakDay == 6

\* ---- program constants ----
WeekDays == 7
WeekSpan == 6
ConsistentDays == 3

Procs == 1..NumProcs
Dates == 0..MaxDate
WeekStarts == {d \in Dates : d % WeekDays = 0}
UploadDates == {d \in Dates : d % WeekDays <= MaxWeekday}
ReportIds == 1..MaxReportIds

None == -1
NoHtml == 0

VARIABLES
  images,               \* skin_images joined with skin_diagnoses: date -> number of rows captured that day
  improvement_records,  \* improvement_records table: week_start -> record or NoRecord
  weekly_reports,       \* weekly_reports table: a set of rows
  nextReportId,         \* primary keys handed out so far
  oracleCalls,          \* narrative-oracle calls made so far (the n-th call answers with content n)
  available,            \* report_generator.client is not None
  pc,                   \* position of each request coroutine
  req,                  \* the request a coroutine serves
  ctx,                  \* locals of _get_or_generate_report
  pending,              \* unflushed changes of the coroutine's AsyncSession
  resp,                 \* the response a finished handler returns
  lastCreated,          \* the report a plain request created, while no later request has completed
  returned              \* the ImprovementAnalyzer call in progress: function, arguments and return value

vars == <<images, improvement_records, weekly_reports, nextReportId, oracleCalls,
          available, pc, req, ctx, pending, resp, lastCreated, returned>>

\* ---- records ----
NoRecord == [present |-> FALSE, improvement_percentage |-> None, severity_trend |-> "none",
             total_images |-> 0]

NoReq == [kind |-> "none", week_start |-> None, force |-> FALSE, report_id |-> None]

NoMetrics == [average_severity |-> None, improvement_percentage |-> None,
              total_images |-> 0, consistent_tracking |-> FALSE, days_tracked |-> 0]

NoCtx == [total_images |-> 0, days |-> {},
          improvement_percentage |-> None, severity_trend |-> "unknown",
          calls |-> 0, outcome |-> "none", gen |-> 0]

NoPending == [op |-> "none", id |-> None]

NoRespMetrics == [average_severity |-> None, improvement_vs_last_week |-> None,
                  total_images_uploaded |-> 0, consistent_tracking |-> FALSE, days_tracked |-> 0]

NoResp == [status |-> "none", report_id |-> None, html |-> NoHtml, metrics |-> NoRespMetrics,
           was_generated |-> FALSE, oracle |-> "none"]

NoCall == [fn |-> "none"]

\* ---- the report store ----
RowsFor(rows, w) == {r \in rows : r.week_start = w}

RowsById(rows, id) == {r \in rows : r.id = id}

TheRow(S) == CHOOSE r \in S : TRUE

\* ---- week windows and the observation store ----
WeekEnd(w) == w + WeekSpan

WeekDates(w) == {d \in Dates : w <= d /\ d <= WeekEnd(w)}

RECURSIVE SumImages(_, _)
SumImages(img, S) ==
  IF S = {} THEN 0
  ELSE LET d == CHOOSE x \in S : TRUE IN img[d] + SumImages(img, S \ {d})

ImagesInWeek(img, w) == SumImages(img, WeekDates(w))

DaysWithImages(img, w) == {d \in WeekDates(w) : img[d] > 0}

\* ---- ImprovementAnalyzer ----
\* date.weekday(): day 0 is a Monday
Weekday(d) == d % WeekDays

WeekRangeFromDate(date_obj) == <<date_obj, date_obj + WeekSpan>>

get_week_range(date_obj) ==
  LET start == date_obj - Weekday(date_obj) IN <<start, start + WeekSpan>>

\* the skin_images/skin_diagnoses join as the analyzer reads it: a sequence of
\* rows [date, prediction, confidence] in capture order; a row's position is
\* its image id.  Confidences are in hundredths.
Range(f) == {f[i] : i \in DOMAIN f}

RECURSIVE SumSeq(_)
SumSeq(q) == IF q = <<>> THEN 0 ELSE Head(q) + SumSeq(Tail(q))

\* .where(captured_at >= week_start 00:00, captured_at <= week_end 23:59:59.999999)
\* .order_by(captured_at.asc()): the ids of the window's rows, in capture order
WindowIds(table, week_start, week_end) ==
  SelectSeq([i \in 1..Len(table) |-> i],
            LAMBDA i : week_start <= table[i].date /\ table[i].date <= week_end)

\* Counter(conditions): its keys in order of first insertion
RECURSIVE Keys(_)
Keys(conditions) ==
  IF conditions = <<>> THEN <<>>
  ELSE LET before == Keys(SubSeq(conditions, 1, Len(conditions) - 1))
           x == conditions[Len(conditions)]
       IN IF x \in Range(before) THEN before ELSE Append(before, x)

Occurrences(conditions, l) == Cardinality({i \in DOMAIN conditions : conditions[i] = l})

RECURSIVE MaxItemLast(_, _, _)
MaxItemLast(keys, conditions, best) ==
  IF keys = <<>> THEN best
  ELSE MaxItemLast(Tail(keys), conditions,
                   IF Occurrences(conditions, Head(keys)) >= Occurrences(conditions, best)
                   THEN Head(keys) ELSE best)

\* max(counter.items(), key=count): the first key with the largest count
RECURSIVE MaxItem(_, _, _)
MaxItem(keys, conditions, best) ==
  IF keys = <<>> THEN best
  ELSE MaxItem(Tail(keys), conditions,
               IF Occurrences(conditions, Head(keys)) > Occurrences(conditions, best)
               THEN Head(keys) ELSE best)

\* Counter(conditions).most_common(1)[0][0]
MostCommon(conditions) == MaxItem(Tail(Keys(conditions)), conditions, Head(Keys(conditions)))

\* calculate_weekly_metrics returns None for a week without rows
NoWeek == [total_images |-> 0]

\* sum(confidences) / len(confidences), kept as an exact quotient
Mean(confidences) == [num |-> SumSeq(confidences), den |-> Len(confidences)]

calculate_weekly_metrics(table, week_start, week_end) ==
  LET rows == WindowIds(table, week_start, week_end)
      confidences == [k \in 1..Len(rows) |-> table[rows[k]].confidence]
      conditions == [k \in 1..Len(rows) |-> table[rows[k]].prediction]
  IN IF rows = <<>> THEN NoWeek
     ELSE [week_start |-> week_start, week_end |-> week_end,
           primary_condition |-> MostCommon(conditions),
           average_confidence |-> Mean(confidences),
           total_images |-> Len(rows),
           initial_image_id |-> rows[1],
           latest_image_id |-> rows[Len(rows)]]

TrendImproving == 10
TrendWorsening == 0 - 10

DetermineTrendInclusive(pct) ==
  IF pct = None THEN "unknown"
  ELSE IF pct >= TrendImproving THEN "improving"
  ELSE IF pct <= TrendWorsening THEN "worsening"
  ELSE "stable"

DetermineTrend(pct) ==
  IF pct = None THEN "unknown"
  ELSE IF pct > TrendImproving THEN "improving"
  ELSE IF pct < TrendWorsening THEN "worsening"
  ELSE "stable"

NoDataUnchecked(current_metrics, previous_metrics) == FALSE

\* if not current_metrics or not previous_metrics
NoData(current_metrics, previous_metrics) ==
  current_metrics = NoWeek \/ previous_metrics = NoWeek

\* compare_weeks on the two weeks' metrics.  With data in both weeks the method
\* evaluates self.vision_service.is_available(): AzureVisionService defines no
\* such attribute, so the call raises AttributeError before the comparison
\* oracle or the confidence fallback is reached.
compare_weeks(current_metrics, previous_metrics) ==
  IF NoData(current_metrics, previous_metrics)
  THEN [raised |-> "none", improvement_percentage |-> None,
        severity_trend |-> "insufficient_data", oracle_calls |-> 0]
  ELSE [raised |-> "AttributeError", improvement_percentage |-> None,
        severity_trend |-> "none", oracle_calls |-> 0]

\* ---- generate_medical_advice ----
\* weekly_data is the sequence of the weeks' improvement_percentage values
\* (None for a week without one), oldest first
RecentWeeks == 4

AdviceGreat == 20
AdviceMild == 0
AdviceStable == 0 - 10

\* weekly_data[-4:]
Recent(weekly_data) ==
  SubSeq(weekly_data,
         IF Len(weekly_data) > RecentWeeks THEN Len(weekly_data) - RecentWeeks + 1 ELSE 1,
         Len(weekly_data))

\* `if w.get("improvement_percentage")`: None and 0 are both falsy
Truthy(pct) == pct # None /\ pct # 0

\* sum(improvements) / len(improvements), kept as an exact quotient; 0 without values
AverageImprovement(weekly_data) ==
  LET improvements == SelectSeq(Recent(weekly_data), Truthy) IN
    IF improvements = <<>> THEN [num |-> 0, den |-> 1]
    ELSE [num |-> SumSeq(improvements), den |-> Len(improvements)]

AdviceTierInclusive(avg) ==
  IF avg.num >= AdviceGreat * avg.den
    THEN [advice |-> "great_progress", needs_doctor_visit |-> FALSE, urgency_level |-> "low"]
  ELSE IF avg.num >= AdviceMild * avg.den
    THEN [advice |-> "mild_improvement", needs_doctor_visit |-> FALSE, urgency_level |-> "low"]
  ELSE IF avg.num >= AdviceStable * avg.den
    THEN [advice |-> "stable", needs_doctor_visit |-> TRUE, urgency_level |-> "medium"]
  ELSE [advice |-> "worsening", needs_doctor_visit |-> TRUE, urgency_level |-> "high"]

\* if avg_improvement > 20 / elif > 0 / elif > -10 / else
AdviceTier(avg) ==
  IF avg.num > AdviceGreat * avg.den
    THEN [advice |-> "great_progress", needs_doctor_visit |-> FALSE, urgency_level |-> "low"]
  ELSE IF avg.num > AdviceMild * avg.den
    THEN [advice |-> "mild_improvement", needs_doctor_visit |-> FALSE, urgency_level |-> "low"]
  ELSE IF avg.num > AdviceStable * avg.den
    THEN [advice |-> "stable", needs_doctor_visit |-> TRUE, urgency_level |-> "medium"]
  ELSE [advice |-> "worsening", needs_doctor_visit |-> TRUE, urgency_level |-> "high"]

NoAverage == [num |-> 0, den |-> 0]

generate_medical_advice(weekly_data) ==
  IF weekly_data = <<>>
  THEN [advice |-> "upload_more", needs_doctor_visit |-> FALSE, urgency_level |-> "low",
        avg_improvement |-> NoAverage]
  ELSE LET avg == AverageImprovement(weekly_data) IN
       [advice |-> AdviceTier(avg).advice,
        needs_doctor_visit |-> AdviceTier(avg).needs_doctor_visit,
        urgency_level |-> AdviceTier(avg).urgency_level,
        avg_improvement |-> avg]

\* the same on the observation store of the report model, which keeps the
\* number of rows of each day
WeekMetrics(img, w) ==
  IF ImagesInWeek(img, w) = 0 THEN NoWeek
  ELSE [week_start |-> w, week_end |-> WeekEnd(w), total_images |-> ImagesInWeek(img, w)]

CompareWeeks(img, w) == compare_weeks(WeekMetrics(img, w), WeekMetrics(img, w - WeekDays))

\* ---- the narrative oracle's client ----
AvailabilityUnchecked == TRUE

IsAvailable == available

OracleOutcomes == {"ok", "nosummary", "badjson", "error", "timeout"}

\* the client raises (APIError, or APITimeoutError once its timeout expires);
\* generate_report_with_llm re-raises and the handler answers 500
Raises(out) == out \in {"error", "timeout"}

\* json.loads raises JSONDecodeError on output that is not valid JSON
ParseFails(out) == out = "badjson"

\* report_data["condition_summary"] raises KeyError when the field is missing
HasSummary(out) == out = "ok"

\* ---- gather_weekly_context ----
GatherImages(img, w) ==
  [NoCtx EXCEPT !.total_images = ImagesInWeek(img, w), !.days = DaysWithImages(img, w)]

GatherRecords(c, rec) ==
  IF rec.present
  THEN [c EXCEPT !.improvement_percentage = rec.improvement_percentage,
                 !.severity_trend = rec.severity_trend]
  ELSE c

\* ImprovementRecord.week_start_date == week_start: records are stored for Mondays
RecordFor(records, w) == IF w \in WeekStarts THEN records[w] ELSE NoRecord

\* ---- the WeeklyReport row built from one generation ----
ImagesTracked(c) == c.total_images

\* len(unique_dates)
DaysTracked(c) == Cardinality(c.days)

MetricsOf(c) ==
  [average_severity |-> None,
   improvement_percentage |-> c.improvement_percentage,
   total_images |-> c.total_images,
   consistent_tracking |-> (DaysTracked(c) >= ConsistentDays),
   days_tracked |-> DaysTracked(c)]

NewRow(id, w, c) ==
  [id |-> id, week_start |-> w, week_end |-> WeekEnd(w),
   skin_trend |-> c.severity_trend, mood_trend |-> "stable",
   report_text |-> c.gen, report_html |-> c.gen, condition_summary |-> c.gen,
   key_insights |-> c.gen, recommendations |-> c.gen,
   metrics |-> MetricsOf(c), generated_by |-> "azure-gpt-4o"]

UpdatedRowKeepsMetrics(r, c) ==
  [r EXCEPT !.report_text = c.gen, !.report_html = c.gen, !.condition_summary = c.gen,
            !.key_insights = c.gen, !.recommendations = c.gen,
            !.skin_trend = c.severity_trend]

UpdatedRow(r, c) ==
  [r EXCEPT !.report_text = c.gen, !.report_html = c.gen, !.condition_summary = c.gen,
            !.key_insights = c.gen, !.recommendations = c.gen,
            !.skin_trend = c.severity_trend, !.metrics = MetricsOf(c)]

CacheNeverHits(S) == FALSE

\* existing_report and existing_report.report_html
CacheHit(S) == Cardinality(S) = 1 /\ TheRow(S).report_html # NoHtml

PlanInsertAlways(S) == [op |-> "insert", id |-> None]

\* force_regenerate: "if weekly_report: update existing, else: create new"
StorePlan(S) ==
  IF S = {} THEN [op |-> "insert", id |-> None] ELSE [op |-> "update", id |-> TheRow(S).id]

\* scalar_one_or_none raises MultipleResultsFound on more than one row
MultipleRows(S) == Cardinality(S) > 1


\* ---- responses ----
LoopFree == \A q \in Procs : pc[q] # "llm"

AllIdle == \A q \in Procs : pc[q] = "idle"

Reply(p, status) ==
  [NoResp EXCEPT !.status = status, !.oracle = ctx[p].outcome]

\* WeeklyMetrics(...) of the JSON response, read from the row's metrics column
ResponseMetrics(m) ==
  [average_severity |-> m.average_severity,
   improvement_vs_last_week |-> m.improvement_percentage,
   total_images_uploaded |-> m.total_images,
   consistent_tracking |-> m.consistent_tracking,
   days_tracked |-> m.days_tracked]

ReplyRecomputed(p, r, gen) ==
  IF req[p].kind = "html"
  THEN [Reply(p, "ok") EXCEPT !.html = r.report_html, !.was_generated = gen]
  ELSE [Reply(p, "ok") EXCEPT !.report_id = r.id, !.html = r.report_html,
                              !.metrics = ResponseMetrics(MetricsOf(GatherImages(images, r.week_start))),
                              !.was_generated = gen]

\* the endpoint's response: WeeklyReportResponse built from the row's columns,
\* or HTMLResponse with the row's report_html
ReplyReport(p, r, gen) ==
  IF req[p].kind = "html"
  THEN [Reply(p, "ok") EXCEPT !.html = r.report_html, !.was_generated = gen]
  ELSE [Reply(p, "ok") EXCEPT !.report_id = r.id, !.html = r.report_html,
                              !.metrics = ResponseMetrics(r.metrics), !.was_generated = gen]

NoCreated == [week_start |-> None, report_id |-> None, html |-> NoHtml, metrics |-> NoMetrics]

CreatedBy(p, r) ==
  IF req[p].force THEN NoCreated
  ELSE [week_start |-> r.week_start, report_id |-> r.id, html |-> r.report_html,
        metrics |-> r.metrics]

ReadAgain(p) == IF req[p].week_start = lastCreated.week_start THEN lastCreated ELSE NoCreated

Respond(p, r, created) ==
  /\ pc' = [pc EXCEPT ![p] = "done"]
  /\ resp' = [resp EXCEPT ![p] = r]
  /\ lastCreated' = created
  /\ UNCHANGED <<req, returned>>
  /\ ctx' = [ctx EXCEPT ![p] = NoCtx]
  /\ pending' = [pending EXCEPT ![p] = NoPending]

Goto(p, where) ==
  /\ pc' = [pc EXCEPT ![p] = where]
  /\ UNCHANGED <<resp, lastCreated, req, returned>>

\* ---- the session of a request (get_db) ----
\* the store after the session's unflushed changes are written
Flushed(p) ==
  IF pending[p].op = "insert"
    THEN weekly_reports \cup {NewRow(nextReportId, req[p].week_start, ctx[p])}
  ELSE IF pending[p].op = "update"
    THEN {IF r.id = pending[p].id THEN UpdatedRow(r, ctx[p]) ELSE r : r \in weekly_reports}
  ELSE IF pending[p].op = "delete"
    THEN {r \in weekly_reports : r.id # pending[p].id}
  ELSE weekly_reports

SessionCommitted(p) == Flushed(p)

\* an exception or a cancellation leaves get_db through rollback()/close():
\* the session's changes are dropped and the store is as it was
SessionAbandoned(p) == weekly_reports

AbandonWith(p, status, out) ==
  /\ weekly_reports' = SessionAbandoned(p)
  /\ Respond(p, [Reply(p, status) EXCEPT !.oracle = out], NoCreated)
  /\ UNCHANGED <<images, improvement_records, nextReportId, oracleCalls, available>>

Abandon(p, status) == AbandonWith(p, status, ctx[p].outcome)

\* ---- Init ----
Init ==
  /\ images = [d \in Dates |-> 0]
  /\ improvement_records = [w \in WeekStarts |-> NoRecord]
  /\ weekly_reports = {}
  /\ nextReportId = 1
  /\ oracleCalls = 0
  /\ available \in BOOLEAN
  /\ pc = [p \in Procs |-> "idle"]
  /\ req = [p \in Procs |-> NoReq]
  /\ ctx = [p \in Procs |-> NoCtx]
  /\ pending = [p \in Procs |-> NoPending]
  /\ resp = [p \in Procs |-> NoResp]
  /\ lastCreated = NoCreated
  /\ returned = NoCall

\* ---- requests: GET /reports/weekly/{user_id} and .../html ----
StartReport(p, w, f, kind) ==
  /\ LoopFree
  /\ pc[p] = "idle"
  /\ req' = [req EXCEPT ![p] = [kind |-> kind, week_start |-> w, force |-> f, report_id |-> None]]
  /\ pc' = [pc EXCEPT ![p] = IF kind = "html" /\ ~f THEN "html_check" ELSE "check"]
  /\ UNCHANGED <<images, improvement_records, weekly_reports, nextReportId, oracleCalls,
                 available, ctx, pending, resp, lastCreated, returned>>

\* get_report_html: the endpoint's own cache lookup
HtmlCheck(p) ==
  /\ LoopFree
  /\ pc[p] = "html_check"
  /\ LET S == RowsFor(weekly_reports, req[p].week_start) IN
       IF MultipleRows(S) THEN Abandon(p, "failed")
       ELSE IF CacheHit(S)
         THEN /\ Respond(p, ReplyReport(p, TheRow(S), FALSE), ReadAgain(p))
              /\ UNCHANGED <<images, improvement_records, weekly_reports, nextReportId,
                             oracleCalls, available>>
       ELSE /\ Goto(p, "check")
            /\ UNCHANGED <<images, improvement_records, weekly_reports, nextReportId,
                           oracleCalls, available, ctx, pending>>

\* _get_or_generate_report: cache lookup, then the availability check
Check(p) ==
  /\ LoopFree
  /\ pc[p] = "check"
  /\ LET S == RowsFor(weekly_reports, req[p].week_start) IN
       IF ~req[p].force /\ MultipleRows(S) THEN Abandon(p, "failed")
       ELSE IF ~req[p].force /\ CacheHit(S)
         THEN /\ Respond(p, ReplyReport(p, TheRow(S), FALSE), ReadAgain(p))
              /\ UNCHANGED <<images, improvement_records, weekly_reports, nextReportId,
                             oracleCalls, available>>
       ELSE IF ~IsAvailable THEN Abandon(p, "unavailable")
       ELSE /\ Goto(p, "gather")
            /\ UNCHANGED <<images, improvement_records, weekly_reports, nextReportId,
                           oracleCalls, available, ctx, pending>>

\* gather_weekly_context: the week's images; none gives "no data"
Gather(p) ==
  /\ LoopFree
  /\ pc[p] = "gather"
  /\ IF ImagesInWeek(images, req[p].week_start) = 0
       THEN Abandon(p, "not_found")
       ELSE /\ ctx' = [ctx EXCEPT ![p] = GatherImages(images, req[p].week_start)]
            /\ Goto(p, "gather_records")
            /\ UNCHANGED <<images, improvement_records, weekly_reports, nextReportId,
                           oracleCalls, available, pending>>

\* gather_weekly_context: the improvement records; then days_tracked and the
\* (synchronous) call of the narrative oracle
CallOracle(p) ==
  /\ LoopFree
  /\ pc[p] = "gather_records"
  /\ oracleCalls < MaxOracleCalls
  /\ oracleCalls' = oracleCalls + 1
  /\ ctx' = [ctx EXCEPT ![p] =
               [GatherRecords(ctx[p], RecordFor(improvement_records, req[p].week_start))
                  EXCEPT !.calls = ctx[p].calls + 1, !.gen = oracleCalls + 1]]
  /\ Goto(p, "llm")
  /\ UNCHANGED <<images, improvement_records, weekly_reports, nextReportId, available, pending>>

RetryMalformed(p, out) ==
  /\ oracleCalls < MaxOracleCalls
  /\ oracleCalls' = oracleCalls + 1
  /\ ctx' = [ctx EXCEPT ![p].calls = ctx[p].calls + 1, ![p].gen = oracleCalls + 1]
  /\ UNCHANGED <<images, improvement_records, weekly_reports, nextReportId, available,
                 pc, req, pending, resp, lastCreated, returned>>

\* except json.JSONDecodeError: raise Exception("Failed to parse LLM response as JSON")
OnMalformed(p, out) == AbandonWith(p, "failed", out)

\* the oracle answers: parse, render, and build the row of a plain request
OracleReturn(p, out) ==
  /\ pc[p] = "llm"
  /\ IF Raises(out) THEN AbandonWith(p, "failed", out)
     ELSE IF ParseFails(out) THEN OnMalformed(p, out)
     ELSE IF req[p].force THEN
       /\ ctx' = [ctx EXCEPT ![p].outcome = out]
       /\ Goto(p, "store_select")
       /\ UNCHANGED <<images, improvement_records, weekly_reports, nextReportId,
                      oracleCalls, available, pending>>
     ELSE IF ~HasSummary(out) THEN AbandonWith(p, "failed", out)
     ELSE
       /\ ctx' = [ctx EXCEPT ![p].outcome = out]
       /\ pending' = [pending EXCEPT ![p] = [op |-> "insert", id |-> None]]
       /\ Goto(p, "commit")
       /\ UNCHANGED <<images, improvement_records, weekly_reports, nextReportId,
                      oracleCalls, available>>

\* force_regenerate: look the row up again, update it in the session or build a new one
StoreSelect(p) ==
  /\ LoopFree
  /\ pc[p] = "store_select"
  /\ LET S == RowsFor(weekly_reports, req[p].week_start) IN
       IF MultipleRows(S) THEN Abandon(p, "failed")
       ELSE IF ~HasSummary(ctx[p].outcome) THEN Abandon(p, "failed")
       ELSE /\ pending' = [pending EXCEPT ![p] = StorePlan(S)]
            /\ Goto(p, "commit")
            /\ UNCHANGED <<images, improvement_records, weekly_reports, nextReportId,
                           oracleCalls, available, ctx>>

\* await db.commit(): the session's changes reach the store in one transaction;
\* an UPDATE that matches no row raises StaleDataError
Commit(p) ==
  /\ LoopFree
  /\ pc[p] = "commit"
  /\ IF pending[p].op = "update" /\ RowsById(weekly_reports, pending[p].id) = {}
       THEN Abandon(p, "failed")
       ELSE /\ pending[p].op = "insert" => nextReportId <= MaxReportIds
            /\ weekly_reports' = Flushed(p)
            /\ nextReportId' = IF pending[p].op = "insert" THEN nextReportId + 1 ELSE nextReportId
            /\ pending' = [pending EXCEPT ![p] =
                 [op |-> "none", id |-> IF pending[p].op = "insert" THEN nextReportId ELSE pending[p].id]]
            /\ Goto(p, "refresh")
            /\ UNCHANGED <<images, improvement_records, oracleCalls, available, ctx>>

\* await db.refresh(weekly_report), then the endpoint's response
Refresh(p) ==
  /\ LoopFree
  /\ pc[p] = "refresh"
  /\ LET S == RowsById(weekly_reports, pending[p].id) IN
       IF S = {} THEN Abandon(p, "failed")
       ELSE /\ Respond(p, ReplyReport(p, TheRow(S), TRUE), CreatedBy(p, TheRow(S)))
            /\ UNCHANGED <<images, improvement_records, weekly_reports, nextReportId,
                           oracleCalls, available>>

\* the response is sent and the handler's slot is free again
Finish(p) ==
  /\ LoopFree
  /\ pc[p] = "done"
  /\ pc' = [pc EXCEPT ![p] = "idle"]
  /\ req' = [req EXCEPT ![p] = NoReq]
  /\ resp' = [resp EXCEPT ![p] = NoResp]
  /\ UNCHANGED <<images, improvement_records, weekly_reports, nextReportId, oracleCalls,
                 available, ctx, pending, lastCreated, returned>>

\* the calling context is cancelled while the handler waits in an await
AwaitPoints == {"html_check", "check", "gather", "gather_records", "store_select", "commit",
                "refresh", "del_select", "del_commit"}

Cancel(p) ==
  /\ LoopFree
  /\ pc[p] \in AwaitPoints
  /\ Abandon(p, "cancelled")

\* ---- DELETE /reports/weekly/{report_id} ----
StartDelete(p, id) ==
  /\ LoopFree
  /\ pc[p] = "idle"
  /\ req' = [req EXCEPT ![p] = [kind |-> "delete", week_start |-> None, force |-> FALSE, report_id |-> id]]
  /\ pc' = [pc EXCEPT ![p] = "del_select"]
  /\ UNCHANGED <<images, improvement_records, weekly_reports, nextReportId, oracleCalls,
                 available, ctx, pending, resp, lastCreated, returned>>

DeleteSelect(p) ==
  /\ LoopFree
  /\ pc[p] = "del_select"
  /\ IF RowsById(weekly_reports, req[p].report_id) = {}
       THEN Abandon(p, "not_found")
       ELSE /\ pending' = [pending EXCEPT ![p] = [op |-> "delete", id |-> req[p].report_id]]
            /\ Goto(p, "del_commit")
            /\ UNCHANGED <<images, improvement_records, weekly_reports, nextReportId,
                           oracleCalls, available, ctx>>

DeleteCommit(p) ==
  /\ LoopFree
  /\ pc[p] = "del_commit"
  /\ weekly_reports' = Flushed(p)
  /\ Respond(p, [Reply(p, "ok") EXCEPT !.report_id = req[p].report_id], NoCreated)
  /\ UNCHANGED <<images, improvement_records, nextReportId, oracleCalls, available>>

\* ---- POST /skin/upload: one image and its diagnosis, captured on day d ----
Upload(d) ==
  /\ LoopFree
  /\ SumImages(images, Dates) < MaxImages
  /\ images' = [images EXCEPT ![d] = images[d] + 1]
  /\ UNCHANGED <<improvement_records, weekly_reports, nextReportId, oracleCalls, available,
                 pc, req, ctx, pending, resp, lastCreated, returned>>

\* ---- ImprovementAnalyzer.get_improvement_tracker: store a record for every
\* week that has images and no record yet; an exception in one comparison ends
\* the call before its commit ----
NeedsRecord(w) == ~improvement_records[w].present /\ ImagesInWeek(images, w) > 0

RecordOf(metrics, comparison) ==
  [present |-> TRUE, improvement_percentage |-> comparison.improvement_percentage,
   severity_trend |-> comparison.severity_trend,
   total_images |-> metrics.total_images]

TrackerRaises == \E w \in WeekStarts : NeedsRecord(w) /\ CompareWeeks(images, w).raised # "none"

\* the entry of weekly_data for week w: the stored record when there is one,
\* else the week's metrics merged with the comparison (no entry for a week
\* without images)
WeeklyData(w) ==
  IF improvement_records[w].present THEN improvement_records[w]
  ELSE IF WeekMetrics(images, w) = NoWeek THEN NoRecord
  ELSE RecordOf(WeekMetrics(images, w), CompareWeeks(images, w))

Tracker ==
  /\ LoopFree
  /\ \E w \in WeekStarts : NeedsRecord(w)
  /\ improvement_records' =
       IF TrackerRaises THEN improvement_records
       ELSE [w \in WeekStarts |-> WeeklyData(w)]
  /\ UNCHANGED <<images, weekly_reports, nextReportId, oracleCalls, available,
                 pc, req, ctx, pending, resp, lastCreated, returned>>

\* ---- calls of the analyzer's functions ----
ReportsIdle ==
  UNCHANGED <<images, improvement_records, weekly_reports, nextReportId, oracleCalls,
              available, pc, req, ctx, pending, resp, lastCreated>>

Days == 0..MaxDay

\* capture dates of the sample tables: the first and the last day of each week
TableDates == {d \in Days : Weekday(d) \in {0, WeekSpan}}

Predictions == {"eczema", "psoriasis"}

Confidences == {0, 60, 70, 80}

TableRows == [date : TableDates, prediction : Predictions, confidence : Confidences]

Tables ==
  UNION {{t \in [1..n -> TableRows] : \A i \in 1..(n - 1) : t[i].date <= t[i + 1].date}
           : n \in 0..MaxRows}

TrendSamples == {0 - 20, 0 - 11, 0 - 10, 0 - 9, 0, 9, 10, 11, 20}

GetWeekRange(d) ==
  /\ returned = NoCall
  /\ returned' = [fn |-> "get_week_range", date_obj |-> d, value |-> get_week_range(d)]
  /\ ReportsIdle

CalculateWeeklyMetrics(table, w) ==
  /\ returned = NoCall
  /\ returned' = [fn |-> "calculate_weekly_metrics", table |-> table, week_start |-> w,
                  value |-> calculate_weekly_metrics(table, w, w + WeekSpan)]
  /\ ReportsIdle

CompareWeeksCall(table, w) ==
  /\ returned = NoCall
  /\ returned' = [fn |-> "compare_weeks", table |-> table, current_week_start |-> w,
                  value |-> compare_weeks(
                              calculate_weekly_metrics(table, w, w + WeekSpan),
                              calculate_weekly_metrics(table, w - WeekDays, w - WeekDays + WeekSpan))]
  /\ ReportsIdle

DetermineTrendCall(pct) ==
  /\ returned = NoCall
  /\ returned' = [fn |-> "_determine_trend", improvement_percentage |-> pct,
                  value |-> DetermineTrend(pct)]
  /\ ReportsIdle

AdviceSamples == {None, 0 - 30, 0 - 10, 0, 10, 20, 30}

Histories == UNION {[1..n -> AdviceSamples] : n \in 0..MaxHistory}

GenerateMedicalAdvice(weekly_data) ==
  /\ returned = NoCall
  /\ returned' = [fn |-> "generate_medical_advice", weekly_data |-> weekly_data,
                  value |-> generate_medical_advice(weekly_data)]
  /\ ReportsIdle

AnalyzerReturn ==
  /\ returned # NoCall
  /\ returned' = NoCall
  /\ ReportsIdle

\* ---- mood scoring (services/mood_inference_service.py) ----
\* A value of the LLM's JSON object, by what float() does with it: a number n,
\* None (also what .get gives for an absent key), a string that is not a
\* number, and an integer too large for a float.  Signals are whole points;
\* overall scores are kept in tenths of a point so that the weights 0.4, 0.3,
\* 0.5 and 0.2 stay integers (binary rounding of the floats is not modelled).
Number(n) == [kind |-> "number", n |-> n]

Missing == [kind |-> "none", n |-> 0]

Text == [kind |-> "text", n |-> 0]

Huge == [kind |-> "huge", n |-> 0]

ScoreMin == 0

ScoreMax == 100

ScoreDefault == 50

Tenths == 10

Clamp(lo, x, hi) == IF x < lo THEN lo ELSE IF x > hi THEN hi ELSE x

\* _safe_score: float(value) clamped to [0, 100]; TypeError and ValueError
\* give 50; the OverflowError of a too large integer is not caught
SafeScore(value) ==
  CASE value.kind = "number" ->
         [raised |-> "none", score |-> Clamp(ScoreMin, value.n, ScoreMax)]
    [] value.kind \in {"none", "text"} ->
         [raised |-> "none", score |-> ScoreDefault]
    [] OTHER -> [raised |-> "OverflowError", score |-> None]

\* _compute_mood_score, in tenths of a point
ComputeMoodScore(stress, anxiety, sadness, energy, mood) ==
  LET negative == 4 * stress + 3 * anxiety + 3 * sadness
  IN  Clamp(ScoreMin * Tenths,
            ScoreMax * Tenths - negative + 5 * energy + 2 * mood,
            ScoreMax * Tenths)

SignalKeys == {"stress", "anxiety", "sadness", "energy", "mood"}

NoRow == [mood_score |-> None, stress |-> None, anxiety |-> None,
          sadness |-> None, energy |-> None]

\* The MoodLog constructor call names mood_score twice (lines 117 and 122),
\* which the language rejects; the row's mood_score is either of the two
\* values the text binds to it.
MoodScoreBindings == {"mood_score", "mood"}

\* process_conversation_audio after the transcription: nothing is written for
\* an empty transcript or when a signal cannot be converted
process_conversation_audio(transcript, llm_response, binding) ==
  LET safe == [k \in SignalKeys |-> SafeScore(llm_response[k])]
      mood_score == ComputeMoodScore(safe["stress"].score, safe["anxiety"].score,
                                     safe["sadness"].score, safe["energy"].score,
                                     safe["mood"].score)
  IN  IF ~transcript
        THEN [raised |-> "none", written |-> FALSE, mood_score |-> None, row |-> NoRow]
      ELSE IF \E k \in SignalKeys : safe[k].raised # "none"
        THEN [raised |-> "OverflowError", written |-> FALSE, mood_score |-> None,
              row |-> NoRow]
      ELSE [raised |-> "none", written |-> TRUE, mood_score |-> mood_score,
            row |-> [mood_score |-> IF binding = "mood_score" THEN mood_score
                                    ELSE safe["mood"].score * Tenths,
                     stress |-> safe["stress"].score,
                     anxiety |-> safe["anxiety"].score,
                     sadness |-> safe["sadness"].score,
                     energy |-> safe["energy"].score]]

\* log_mood (routers/mood.py): the row takes the payload's mood_score, stress,
\* anxiety and energy; the payload's sadness is not stored
log_mood(payload) ==
  [mood_score |-> payload.mood_score, stress |-> payload.stress,
   anxiety |-> payload.anxiety, sadness |-> None, energy |-> payload.energy]

\* ---- streaks (routers/user_engagement.py) ----
RemoveAt(seq, i) == SubSeq(seq, 1, i - 1) \o SubSeq(seq, i + 1, Len(seq))

Unsorted(dates) == dates

\* sorted(check_in_dates, reverse=True)
RECURSIVE SortedReverse(_)
SortedReverse(dates) ==
  IF dates = <<>> THEN <<>>
  ELSE LET i == CHOOSE i \in DOMAIN dates : \A j \in DOMAIN dates : dates[j] <= dates[i]
       IN  <<dates[i]>> \o SortedReverse(RemoveAt(dates, i))

CountsToday(check_date, expected_date) == check_date = expected_date

\* the test of the current-streak loop
Counts(check_date, expected_date) ==
  check_date = expected_date \/ check_date = expected_date - 1

\* the current-streak loop over the remaining sorted dates
RECURSIVE CurrentStreak(_, _, _)
CurrentStreak(sorted_dates, expected_date, current_streak) ==
  IF sorted_dates = <<>> THEN current_streak
  ELSE IF Counts(Head(sorted_dates), expected_date)
    THEN CurrentStreak(Tail(sorted_dates), Head(sorted_dates) - 1, current_streak + 1)
  ELSE current_streak

\* the longest-streak loop from index i (1-based) with its two counters
RECURSIVE LongestStreak(_, _, _, _)
LongestStreak(sorted_dates, i, temp_streak, longest_streak) ==
  IF i > Len(sorted_dates)
    THEN IF temp_streak > longest_streak THEN temp_streak ELSE longest_streak
  ELSE IF sorted_dates[i - 1] - sorted_dates[i] = 1
    THEN LongestStreak(sorted_dates, i + 1, temp_streak + 1,
                       IF temp_streak + 1 > longest_streak THEN temp_streak + 1
                       ELSE longest_streak)
  ELSE LongestStreak(sorted_dates, i + 1, 1, longest_streak)

calculate_streak(check_in_dates, today) ==
  IF check_in_dates = <<>> THEN [current_streak |-> 0, longest_streak |-> 0]
  ELSE LET sorted_dates == SortedReverse(check_in_dates)
       IN  [current_streak |-> CurrentStreak(sorted_dates, today, 0),
            longest_streak |-> LongestStreak(sorted_dates, 2, 1, 0)]

\* ---- calls of the mood and streak functions ----
ScoreInputs == {Number(0 - 5), Number(0), Number(50), Number(100), Number(150),
                Missing, Text, Huge}

SignalSamples == {0, 50, 100}

LlmResponses == [SignalKeys -> ScoreInputs \ {Number(0 - 5)}]

MoodScoreSamples == {0, 500, 1000}

Payloads == [mood_score : MoodScoreSamples, stress : SignalSamples,
             anxiety : SignalSamples, sadness : SignalSamples,
             energy : SignalSamples]

StreakDays == 0..MaxStreakDay

\* list(set(image_dates + mood_dates)): distinct dates in any order
AllDates ==
  UNION {{dates \in [1..n -> StreakDays] :
            \A i, j \in 1..n : i # j => dates[i] # dates[j]} : n \in 0..MaxCheckIns}

SafeScoreCall(value) ==
  /\ returned' = [fn |-> "_safe_score", value |-> value, out |-> SafeScore(value)]
  /\ ReportsIdle

ComputeMoodScoreCall(stress, anxiety, sadness, energy, mood) ==
  /\ returned' = [fn |-> "_compute_mood_score", stress |-> stress,
                  anxiety |-> anxiety, sadness |-> sadness, energy |-> energy,
                  mood |-> mood,
                  mood_score |-> ComputeMoodScore(stress, anxiety, sadness, energy, mood)]
  /\ ReportsIdle

ProcessConversationAudio(transcript, llm_response, binding) ==
  /\ returned' = [fn |-> "process_conversation_audio", transcript |-> transcript,
                  llm_response |-> llm_response,
                  out |-> process_conversation_audio(transcript, llm_response, binding)]
  /\ ReportsIdle

LogMood(payload) ==
  /\ returned' = [fn |-> "log_mood", payload |-> payload, row |-> log_mood(payload)]
  /\ ReportsIdle

CalculateStreak(check_in_dates, today) ==
  /\ returned' = [fn |-> "calculate_streak", check_in_dates |-> check_in_dates,
                  today |-> today, out |-> calculate_streak(check_in_dates, today)]
  /\ ReportsIdle

\* ---- next-state relations ----
ReportKinds == {"json", "html"}

ReportStep(p) ==
  \/ HtmlCheck(p)
  \/ Check(p)
  \/ Gather(p)
  \/ CallOracle(p)
  \/ \E out \in OracleOutcomes : OracleReturn(p, out)
  \/ StoreSelect(p)
  \/ Commit(p)
  \/ Refresh(p)
  \/ Finish(p)

DeleteStep(p) ==
  \/ DeleteSelect(p)
  \/ DeleteCommit(p)

\* requests run one at a time, for the Monday of a week
Next ==
  \/ \E p \in Procs, w \in WeekStarts, f \in BOOLEAN, k \in ReportKinds :
       AllIdle /\ StartReport(p, w, f, k)
  \/ \E p \in Procs, id \in ReportIds : AllIdle /\ StartDelete(p, id)
  \/ \E p \in Procs : ReportStep(p)
  \/ \E p \in Procs : DeleteStep(p)
  \/ \E p \in Procs : Cancel(p)
  \/ \E d \in UploadDates : Upload(d)
  \/ Tracker

Spec == Init /\ [][Next]_vars

\* report requests overlap: the handlers interleave at their awaits.  Every
\* behaviour of SpecConc is a behaviour of the server (deletions, cancellations
\* and the tracker are not needed to reach the interleavings examined here).
NextConc ==
  \/ \E p \in Procs, w \in WeekStarts, f \in BOOLEAN, k \in ReportKinds : StartReport(p, w, f, k)
  \/ \E p \in Procs : ReportStep(p)
  \/ \E d \in UploadDates : Upload(d)

SpecConc == Init /\ [][NextConc]_vars

\* requests, one at a time, for any week_start a caller may pass, against a
\* store that already holds the subject's observations
TrackedDates == {d \in Dates : Weekday(d) <= MaxTrackedWeekday}

InitWeek ==
  /\ images \in {img \in [Dates -> 0..MaxPerDay] : \A d \in Dates \ TrackedDates : img[d] = 0}
  /\ improvement_records = [w \in WeekStarts |-> NoRecord]
  /\ weekly_reports = {}
  /\ nextReportId = 1
  /\ oracleCalls = 0
  /\ available = TRUE
  /\ pc = [p \in Procs |-> "idle"]
  /\ req = [p \in Procs |-> NoReq]
  /\ ctx = [p \in Procs |-> NoCtx]
  /\ pending = [p \in Procs |-> NoPending]
  /\ resp = [p \in Procs |-> NoResp]
  /\ lastCreated = NoCreated
  /\ returned = NoCall

NextWeek ==
  \/ \E p \in Procs, w \in TrackedDates, f \in BOOLEAN, k \in ReportKinds :
       AllIdle /\ StartReport(p, w, f, k)
  \/ \E p \in Procs : ReportStep(p)

SpecWeek == InitWeek /\ [][NextWeek]_vars

\* the analyzer's functions applied to sample dates, tables and percentages
AnalyzerWeeks == {d \in Days : Weekday(d) = 0}

Idle == returned = NoCall

NextAnalyzer ==
  \/ Idle /\ \E d \in Days : GetWeekRange(d)
  \/ Idle /\ \E table \in Tables, w \in AnalyzerWeeks : CalculateWeeklyMetrics(table, w)
  \/ Idle /\ \E table \in Tables, w \in AnalyzerWeeks : CompareWeeksCall(table, w)
  \/ Idle /\ \E pct \in TrendSamples \cup {None} : DetermineTrendCall(pct)
  \/ Idle /\ \E weekly_data \in Histories : GenerateMedicalAdvice(weekly_data)
  \/ AnalyzerReturn

SpecAnalyzer == Init /\ [][NextAnalyzer]_vars

NextWellbeing ==
  \/ Idle /\ \E value \in ScoreInputs : SafeScoreCall(value)
  \/ Idle /\ \E stress, anxiety, sadness, energy, mood \in SignalSamples :
               ComputeMoodScoreCall(stress, anxiety, sadness, energy, mood)
  \/ Idle /\ \E transcript \in BOOLEAN, llm_response \in LlmResponses,
                binding \in MoodScoreBindings :
               ProcessConversationAudio(transcript, llm_response, binding)
  \/ Idle /\ \E payload \in Payloads : LogMood(payload)
  \/ Idle /\ \E check_in_dates \in AllDates, today \in StreakDays :
               CalculateStreak(check_in_dates, today)
  \/ AnalyzerReturn

SpecWellbeing == Init /\ [][NextWellbeing]_vars

\* ======================= properties =======================
Stored(w) == RowsFor(weekly_reports, w)

IsReport(p) == req[p].kind \in ReportKinds

Completes(p) == pc[p] # "done" /\ pc'[p] = "done"

\* C1: requests running one at a time (plain or forced, JSON or HTML, and
\* deletions) never leave more than one WeeklyReport row for a week_start.
C1_AtMostOneRowPerKey == \A w \in WeekStarts : Cardinality(Stored(w)) <= 1

\* a forced regeneration has completed on a key whose row an earlier request created
C1_Witness ==
  \E p \in Procs :
    /\ pc[p] = "done" /\ IsReport(p) /\ req[p].force
    /\ resp[p].status = "ok" /\ resp[p].was_generated
    /\ oracleCalls = 2 /\ nextReportId = 2
    /\ Cardinality(Stored(req[p].week_start)) = 1

\* C2: two overlapping requests for one key that both got a usable answer from
\* the oracle end with exactly one row for the key and with no error for
\* either caller.
C2_RaceLeavesOneRow ==
  \A p \in Procs, q \in Procs :
    ( /\ p # q
      /\ pc[p] = "done" /\ pc[q] = "done"
      /\ IsReport(p) /\ IsReport(q)
      /\ req[p].week_start = req[q].week_start
      /\ resp[p].oracle = "ok" /\ resp[q].oracle = "ok" )
    => ( /\ Cardinality(Stored(req[p].week_start)) = 1
         /\ resp[p].status = "ok" /\ resp[q].status = "ok" )

\* C3: requests in flight for the same key share one generation: between them
\* the narrative oracle has been called at most once.
InFlight(p) == pc[p] \notin {"idle", "done"}

C3_SingleGeneration ==
  \A p \in Procs, q \in Procs :
    (p # q /\ InFlight(p) /\ InFlight(q) /\ req[p].week_start = req[q].week_start)
    => ctx[p].calls + ctx[q].calls <= 1

C6_UnavailableBeforeNoData ==
  [][\A p \in Procs :
       /\ ( /\ pc[p] = "check" /\ pc'[p] # pc[p]
            /\ (req[p].force \/ Stored(req[p].week_start) = {})
            /\ ~available /\ resp'[p].status # "cancelled" )
          => (pc'[p] = "done" /\ resp'[p].status = "unavailable")
       /\ ( /\ pc[p] = "gather" /\ pc'[p] # pc[p]
            /\ ImagesInWeek(images, req[p].week_start) = 0
            /\ resp'[p].status # "cancelled" )
          => (pc'[p] = "done" /\ resp'[p].status = "not_found")
       /\ (Completes(p) /\ IsReport(p) /\ resp'[p].status \in {"unavailable", "not_found"})
          => ( /\ weekly_reports' = weekly_reports
               /\ pending[p] = NoPending
               /\ (resp'[p].status = "not_found") => available )]_vars

\* service-unavailable was answered for a week that has no observation either
C6_Witness ==
  \E p \in Procs :
    /\ pc[p] = "done" /\ IsReport(p) /\ resp[p].status = "unavailable"
    /\ ImagesInWeek(images, req[p].week_start) = 0

\* C7: a request that fails or is cancelled before its commit leaves the report
\* store as it was; the store changes only in a commit step, and every stored
\* row carries the text, HTML, summary, insights and recommendations of one
\* and the same generation.
BeforeCommit == {"html_check", "check", "gather", "gather_records", "llm", "store_select", "commit"}

C7_AllOrNothing ==
  /\ [][\A p \in Procs :
          (pc[p] \in BeforeCommit /\ pc'[p] = "done" /\ resp'[p].status \in {"failed", "cancelled"})
          => weekly_reports' = weekly_reports]_vars
  /\ [][weekly_reports' # weekly_reports
          => \E p \in Procs : \/ pc[p] = "commit" /\ pc'[p] = "refresh"
                              \/ pc[p] = "del_commit" /\ pc'[p] = "done" /\ resp'[p].status = "ok"]_vars
  /\ [](\A r \in weekly_reports :
          /\ r.report_html # NoHtml
          /\ r.report_text = r.report_html /\ r.condition_summary = r.report_html
          /\ r.key_insights = r.report_html /\ r.recommendations = r.report_html)

\* a forced regeneration of a stored report failed on an oracle answer without condition_summary
C7_Witness ==
  \E p \in Procs :
    /\ pc[p] = "done" /\ IsReport(p) /\ req[p].force
    /\ resp[p].status = "failed" /\ resp[p].oracle = "nosummary"
    /\ Stored(req[p].week_start) # {}

\* C8: the commit of a forced regeneration for a key that has a report leaves
\* exactly one row for the key, with the text, HTML, summary, insights,
\* recommendations, trend and metrics of this generation.
C8_ForceReplaces ==
  [][\A p \in Procs :
       ( /\ pc[p] = "commit" /\ pc'[p] = "refresh"
         /\ req[p].force /\ Stored(req[p].week_start) # {} )
       => LET S == RowsFor(weekly_reports', req[p].week_start) IN
            /\ Cardinality(S) = 1
            /\ \A r \in S :
                 /\ r.report_text = ctx[p].gen /\ r.report_html = ctx[p].gen
                 /\ r.condition_summary = ctx[p].gen
                 /\ r.key_insights = ctx[p].gen /\ r.recommendations = ctx[p].gen
                 /\ r.skin_trend = ctx[p].severity_trend
                 /\ r.metrics.total_images = ctx[p].total_images
                 /\ r.metrics.days_tracked = Cardinality(ctx[p].days)
                 /\ r.metrics.improvement_percentage = ctx[p].improvement_percentage
                 /\ \A old \in Stored(req[p].week_start) :
                      r.id = old.id /\ r.report_html # old.report_html]_vars

\* a forced regeneration replaced the content of row 1 by the second generation
\* with metrics that differ from the first one's
C8_Witness ==
  \E p \in Procs :
    /\ pc[p] = "done" /\ req[p].kind = "json" /\ req[p].force
    /\ resp[p].status = "ok" /\ resp[p].was_generated
    /\ resp[p].report_id = 1 /\ nextReportId = 2
    /\ resp[p].html = 2 /\ resp[p].metrics.total_images_uploaded = 2

\* C9: while an oracle call is outstanding, a request in flight for another
\* key can take its next step.
C9_StallDoesNotBlock ==
  \A p \in Procs, q \in Procs :
    ( /\ pc[p] = "llm"
      /\ InFlight(q) /\ pc[q] # "llm"
      /\ req[q].week_start # req[p].week_start )
    => ENABLED ReportStep(q)

\* C10: an oracle answer that is not valid JSON ends the request with an error
\* and an unchanged report store, and no request calls the oracle twice.
C10_MalformedFails ==
  /\ [](\A p \in Procs : ctx[p].calls <= 1)
  /\ [][\A p \in Procs :
          (pc[p] = "llm" /\ resp'[p].oracle = "badjson")
          => ( /\ pc'[p] = "done" /\ resp'[p].status = "failed"
               /\ oracleCalls' = oracleCalls
               /\ pending[p] = NoPending
               /\ weekly_reports' = weekly_reports )]_vars

\* a request ended on an oracle answer that was not valid JSON
C10_Witness ==
  \E p \in Procs :
    pc[p] = "done" /\ IsReport(p) /\ resp[p].oracle = "badjson" /\ resp[p].status = "failed"

\* C11: a request whose narrative-oracle call timed out ends with the
\* service-unavailable outcome, the one an unconfigured oracle gives.
C11_TimeoutAsUnavailable ==
  \A p \in Procs :
    (pc[p] = "done" /\ IsReport(p) /\ resp[p].oracle = "timeout")
    => resp[p].status = "unavailable"

\* C12: the context a generation assembles before the oracle call carries the
\* Trend Comparator's result for the requested week against the week before,
\* on the observations stored at that moment (insufficient_data and no
\* percentage when the preceding week is empty), and the commit persists it.
C12_TrendFromComparator ==
  [][\A p \in Procs :
       /\ (pc[p] = "gather_records" /\ pc'[p] = "llm")
          => LET comparison == CompareWeeks(images, req[p].week_start) IN
               comparison.raised = "none"
               => /\ ctx'[p].severity_trend = comparison.severity_trend
                  /\ ctx'[p].improvement_percentage = comparison.improvement_percentage
       /\ (pc[p] = "commit" /\ pc'[p] = "refresh")
          => \A r \in RowsById(weekly_reports', pending'[p].id) :
               /\ r.skin_trend = ctx[p].severity_trend
               /\ r.metrics.improvement_percentage = ctx[p].improvement_percentage]_vars

\* C13: get_week_range(d) is a window of exactly 7 days that starts on a
\* Monday and contains d, and it is the window of its own first and last day.
C13_WeekRange ==
  returned.fn = "get_week_range"
  => LET d == returned.date_obj
         start == returned.value[1]
         end == returned.value[2]
     IN /\ start % 7 = 0
        /\ start <= d /\ d <= end
        /\ end = start + 6
        /\ Cardinality({x \in (start - 1)..(end + 1) : start <= x /\ x <= end}) = 7
        /\ get_week_range(start) = <<start, end>>
        /\ get_week_range(end) = <<start, end>>

\* the window of the Sunday of the second week
C13_Witness ==
  /\ returned.fn = "get_week_range"
  /\ returned.date_obj = 13
  /\ returned.value = <<7, 13>>

\* C14: every stored WeeklyReport has a Monday as week_start and
\* week_end = week_start + 6, whatever week_start the requests passed.
C14_MondayAnchored ==
  \A r \in weekly_reports : r.week_start % 7 = 0 /\ r.week_end = r.week_start + 6

\* C15: the context gathered for a report counts exactly the observations
\* whose get_week_range window is the report's window (week_start, week_end).
C15_WeekAgreement ==
  [][\A p \in Procs :
       (pc[p] = "gather" /\ pc'[p] = "gather_records")
       => LET w == req[p].week_start
              own == {d \in Dates : get_week_range(d) = <<w, WeekEnd(w)>>}
          IN /\ ctx'[p].days = {d \in own : images[d] > 0}
             /\ ctx'[p].total_images = SumImages(images, own)]_vars

\* C16: for a week with rows, calculate_weekly_metrics returns the most
\* frequent label (among equally frequent ones the one observed first), the
\* exact mean of the confidences, the number of rows and the first and last
\* row of the window; for a week without rows it returns None.  Labels
\* [eczema, eczema, psoriasis] with confidences [0.6, 0.7, 0.8] give eczema,
\* 0.7 and 3.
RECURSIVE ConfidenceSum(_, _)
ConfidenceSum(table, S) ==
  IF S = {} THEN 0
  ELSE LET i == CHOOSE x \in S : TRUE IN table[i].confidence + ConfidenceSum(table, S \ {i})

C16_WeeklyMetrics ==
  returned.fn = "calculate_weekly_metrics"
  => LET t == returned.table
         w == returned.week_start
         v == returned.value
         ids == {i \in DOMAIN t : w <= t[i].date /\ t[i].date <= w + 6}
         Count(l) == Cardinality({i \in ids : t[i].prediction = l})
         First(l) == CHOOSE i \in ids : t[i].prediction = l /\ \A j \in ids : t[j].prediction = l => i <= j
         labels == {t[i].prediction : i \in ids}
     IN IF ids = {} THEN v = NoWeek
        ELSE /\ v.primary_condition \in labels
             /\ \A l \in labels \ {v.primary_condition} :
                  \/ Count(v.primary_condition) > Count(l)
                  \/ Count(v.primary_condition) = Count(l) /\ First(v.primary_condition) < First(l)
             /\ v.average_confidence.den = Cardinality(ids)
             /\ v.average_confidence.num = ConfidenceSum(t, ids)
             /\ v.total_images = Cardinality(ids)
             /\ \A i \in ids : v.initial_image_id <= i /\ i <= v.latest_image_id
             /\ v.initial_image_id \in ids /\ v.latest_image_id \in ids
             /\ ( /\ Cardinality(ids) = 3
                  /\ \A i \in ids : t[i].prediction = (IF i = v.latest_image_id THEN "psoriasis" ELSE "eczema")
                  /\ {t[i].confidence : i \in ids} = {60, 70, 80} )
                => ( /\ v.primary_condition = "eczema"
                     /\ v.average_confidence.num = 70 * v.average_confidence.den
                     /\ v.total_images = 3 )

\* two labels are equally frequent in the window; the one observed first is
\* returned, and a row of the next Monday is left out
C16_Witness ==
  /\ returned.fn = "calculate_weekly_metrics"
  /\ returned.week_start = 0
  /\ Len(returned.table) = 3
  /\ returned.table[1].prediction = "psoriasis" /\ returned.table[1].date = 0
  /\ returned.table[2].prediction = "eczema" /\ returned.table[2].date = 6
  /\ returned.table[3].prediction = "eczema" /\ returned.table[3].date = 7
  /\ returned.value.primary_condition = "psoriasis"
  /\ returned.value.total_images = 2

\* C17: a stored report's days_tracked is the number of distinct dates of its
\* window that have an observation, and consistent_tracking is true exactly
\* when days_tracked >= 3.
C17_DaysTracked ==
  \A r \in weekly_reports :
    /\ r.metrics.days_tracked =
         Cardinality({d \in Dates : r.week_start <= d /\ d <= r.week_end /\ images[d] > 0})
    /\ r.metrics.consistent_tracking <=> (r.metrics.days_tracked >= 3)

\* a report of a week tracked on three days, one of them with two observations
C17_Witness ==
  \E r \in weekly_reports :
    /\ r.metrics.days_tracked = 3
    /\ r.metrics.consistent_tracking
    /\ r.metrics.total_images = 4

\* C18: when the current or the previous week has no row, compare_weeks
\* returns insufficient_data without a percentage and without calling the
\* comparison oracle, whatever the other week holds.
C18_InsufficientData ==
  returned.fn = "compare_weeks"
  => LET t == returned.table
         w == returned.current_week_start
         InWeek(m) == {i \in DOMAIN t : m <= t[i].date /\ t[i].date <= m + 6}
     IN (InWeek(w) = {} \/ InWeek(w - 7) = {})
        => /\ returned.value.raised = "none"
           /\ returned.value.severity_trend = "insufficient_data"
           /\ returned.value.improvement_percentage = None
           /\ returned.value.oracle_calls = 0

\* the current week holds three rows and the week before none
C18_Witness ==
  /\ returned.fn = "compare_weeks"
  /\ returned.current_week_start = 7
  /\ Len(returned.table) = 3
  /\ \A i \in DOMAIN returned.table : returned.table[i].date >= 7
  /\ returned.value.severity_trend = "insufficient_data"

\* C19: _determine_trend(p) is improving exactly for p > 10, worsening exactly
\* for p < -10 and stable otherwise; 10 and -10 are stable.
C19_TrendThresholds ==
  (returned.fn = "_determine_trend" /\ returned.improvement_percentage # None)
  => LET pct == returned.improvement_percentage IN
       /\ (returned.value = "improving") <=> (pct > 10)
       /\ (returned.value = "worsening") <=> (pct < 0 - 10)
       /\ (returned.value = "stable") <=> (0 - 10 <= pct /\ pct <= 10)
       /\ (pct = 10 \/ pct = 0 - 10) => returned.value = "stable"

\* the boundary: exactly 10 is classified
C19_Witness ==
  /\ returned.fn = "_determine_trend"
  /\ returned.improvement_percentage = 10
  /\ returned.value = "stable"

\* C20: with rows in both weeks and a mean confidence of 0 in the previous
\* week, compare_weeks returns the trend unknown and raises nothing.
C20_ZeroPreviousMean ==
  returned.fn = "compare_weeks"
  => LET t == returned.table
         w == returned.current_week_start
         InWeek(m) == {i \in DOMAIN t : m <= t[i].date /\ t[i].date <= m + 6}
     IN ( /\ InWeek(w) # {} /\ InWeek(w - 7) # {}
          /\ \A i \in InWeek(w - 7) : t[i].confidence = 0 )
        => /\ returned.value.raised = "none"
           /\ returned.value.severity_trend = "unknown"

\* C21: with rows in both weeks (the comparison oracle being unavailable or
\* failing) compare_weeks raises nothing and returns the local estimate
\* (current mean - previous mean) / previous mean * 100 with its trend label.
C21_FallbackEstimate ==
  returned.fn = "compare_weeks"
  => LET t == returned.table
         w == returned.current_week_start
         InWeek(m) == {i \in DOMAIN t : m <= t[i].date /\ t[i].date <= m + 6}
         cur == [num |-> ConfidenceSum(t, InWeek(w)), den |-> Cardinality(InWeek(w))]
         prev == [num |-> ConfidenceSum(t, InWeek(w - 7)), den |-> Cardinality(InWeek(w - 7))]
         estimate == [num |-> (cur.num * prev.den - prev.num * cur.den) * 100,
                      den |-> prev.num * cur.den]
     IN (InWeek(w) # {} /\ InWeek(w - 7) # {} /\ prev.num > 0)
        => /\ returned.value.raised = "none"
           /\ returned.value.improvement_percentage # None
           /\ returned.value.improvement_percentage * estimate.den = estimate.num
           /\ returned.value.severity_trend =
                (IF estimate.num > 10 * estimate.den THEN "improving"
                 ELSE IF estimate.num < (0 - 10) * estimate.den THEN "worsening"
                 ELSE "stable")

\* C22: for a non-empty history with average avg, generate_medical_advice
\* answers great progress (low, no visit) for avg > 20, mild improvement (low,
\* no visit) for 0 < avg <= 20, stable (medium, visit) for -10 < avg <= 0 and
\* worsening (high, visit) for avg <= -10.
C22_AdviceTiers ==
  (returned.fn = "generate_medical_advice" /\ returned.weekly_data # <<>>)
  => LET avg == returned.value.avg_improvement
         v == returned.value
     IN /\ avg.den > 0
        /\ (avg.num > 20 * avg.den)
             => (v.advice = "great_progress" /\ v.urgency_level = "low" /\ ~v.needs_doctor_visit)
        /\ (0 < avg.num /\ avg.num <= 20 * avg.den)
             => (v.advice = "mild_improvement" /\ v.urgency_level = "low" /\ ~v.needs_doctor_visit)
        /\ ((0 - 10) * avg.den < avg.num /\ avg.num <= 0)
             => (v.advice = "stable" /\ v.urgency_level = "medium" /\ v.needs_doctor_visit)
        /\ (avg.num <= (0 - 10) * avg.den)
             => (v.advice = "worsening" /\ v.urgency_level = "high" /\ v.needs_doctor_visit)

\* the average of two weeks is exactly 20: the lower tier
C22_Witness ==
  /\ returned.fn = "generate_medical_advice"
  /\ returned.weekly_data = <<10, 30>>
  /\ returned.value.avg_improvement = [num |-> 40, den |-> 2]
  /\ returned.value.advice = "mild_improvement"

\* C23: the advice is the one of the mean of all non-null percentages among
\* the 4 most recent weeks (zeros included), the mean being 0 when there is no
\* non-null value, also for an empty history.
C23_AverageOfNonNull ==
  returned.fn = "generate_medical_advice"
  => LET h == returned.weekly_data
         recent == {i \in DOMAIN h : i > Len(h) - 4}
         nonnull == {i \in recent : h[i] # None}
         RECURSIVE Total(_)
         Total(S) == IF S = {} THEN 0
                     ELSE LET i == CHOOSE x \in S : TRUE IN h[i] + Total(S \ {i})
         mean == IF nonnull = {} THEN [num |-> 0, den |-> 1]
                 ELSE [num |-> Total(nonnull), den |-> Cardinality(nonnull)]
     IN /\ returned.value.avg_improvement.num * mean.den
             = mean.num * returned.value.avg_improvement.den
        /\ returned.value.avg_improvement.den > 0
        /\ returned.value.advice = AdviceTier(mean).advice

\* C29: whenever a tracker call succeeds, the number of images it reports for
\* a week is the number of observations stored for that week at that moment.
C29_TrackerFresh ==
  ~TrackerRaises
  => \A w \in WeekStarts :
       WeeklyData(w).present => WeeklyData(w).total_images = ImagesInWeek(images, w)

\* C24: for signals in [0,100] _compute_mood_score returns the clamped weighted
\* sum, a value in [0,100], and 75 for (50,50,50,50) with raw mood 0; and
\* _safe_score maps every input to a value in [0,100], 50 for a missing or
\* non-numeric one, without raising.
C24_ScorerTotal ==
  /\ returned.fn = "_compute_mood_score" =>
       /\ returned.mood_score \in (ScoreMin * Tenths)..(ScoreMax * Tenths)
       /\ LET raw == 1000 - (4 * returned.stress + 3 * returned.anxiety
                             + 3 * returned.sadness)
                     + 5 * returned.energy + 2 * returned.mood
          IN  returned.mood_score = IF raw < 0 THEN 0 ELSE IF raw > 1000 THEN 1000 ELSE raw
       /\ (/\ returned.stress = 50 /\ returned.anxiety = 50 /\ returned.sadness = 50
           /\ returned.energy = 50 /\ returned.mood = 0) => returned.mood_score = 750
  /\ returned.fn = "_safe_score" =>
       /\ returned.out.raised = "none"
       /\ returned.out.score \in 0..100
       /\ returned.value.kind \in {"none", "text"} => returned.out.score = 50

\* C25: a sample written by the voice pipeline whose inferred signals have no
\* raw mood is scored as with raw mood 0.
C25_AbsentMoodAddsNothing ==
  (/\ returned.fn = "process_conversation_audio"
   /\ returned.out.written
   /\ returned.llm_response["mood"] = Missing)
  => returned.out.mood_score =
       ComputeMoodScore(returned.out.row.stress, returned.out.row.anxiety,
                        returned.out.row.sadness, returned.out.row.energy, 0)

WrittenRow ==
  IF returned.fn = "log_mood" THEN returned.row
  ELSE IF returned.fn = "process_conversation_audio" /\ returned.out.written
    THEN returned.out.row
  ELSE NoRow

\* C26: every row written to mood_logs carries a stored sadness and an overall
\* score that the scorer gives for the row's own stress, anxiety, sadness and
\* energy (with some raw mood in [0,100]).
C26_ScoreFromScorer ==
  WrittenRow # NoRow =>
    /\ WrittenRow.sadness # None
    /\ \E mood \in ScoreMin..ScoreMax :
         WrittenRow.mood_score =
           ComputeMoodScore(WrittenRow.stress, WrittenRow.anxiety,
                            WrittenRow.sadness, WrittenRow.energy, mood)

DateSet == Range(returned.check_in_dates)

\* the k-th latest date of a set
Latest(S, k) == CHOOSE d \in S : Cardinality({e \in S : e > d}) = k - 1

\* the count of the rule: the latest date is today or yesterday, and each
\* further date is one or two days before the one counted before it
RuleCount(S, today) ==
  LET Chain(k) == /\ k >= 1 => Latest(S, 1) \in {today, today - 1}
                  /\ \A i \in 1..(k - 1) : Latest(S, i) - Latest(S, i + 1) \in {1, 2}
  IN  CHOOSE k \in 0..Cardinality(S) :
        Chain(k) /\ \A m \in (k + 1)..Cardinality(S) : ~Chain(m)

\* C27: the current streak of calculate_streak is the count of the rule
\* (descending dates, each equal to the expected date or the day before it);
\* 0 for no dates, 3 for {today, today-1, today-2}, 1 for {today, today-3},
\* 0 when neither today nor yesterday is present.
C27_CurrentStreakRule ==
  returned.fn = "calculate_streak" =>
    LET today == returned.today
        current == returned.out.current_streak
    IN  /\ current = RuleCount(DateSet, today)
        /\ DateSet = {} => current = 0
        /\ DateSet = {today, today - 1, today - 2} => current = 3
        /\ DateSet = {today, today - 3} => current = 1
        /\ DateSet \cap {today, today - 1} = {} => current = 0

C27_Witness ==
  /\ returned.fn = "calculate_streak"
  /\ returned.check_in_dates = <<3, 1, 4>>
  /\ returned.today = 5
  /\ returned.out.current_streak = 3

\* the longest run of consecutive days within a set of dates
LongestRun(S) ==
  CHOOSE k \in 0..Cardinality(S) :
    /\ k >= 1 => \E d \in S : \A i \in 0..(k - 1) : d + i \in S
    /\ \A m \in (k + 1)..Cardinality(S) : ~\E d \in S : \A i \in 0..(m - 1) : d + i \in S

\* C28: the longest streak of calculate_streak is the length of the longest run
\* of consecutive days among the dates, whatever their order: 0 for no dates,
\* at least 1 otherwise.
C28_LongestRun ==
  returned.fn = "calculate_streak" =>
    /\ returned.out.longest_streak = LongestRun(DateSet)
    /\ DateSet = {} => returned.out.longest_streak = 0
    /\ DateSet # {} => returned.out.longest_streak >= 1

C28_Witness ==
  /\ returned.fn = "calculate_streak"
  /\ returned.check_in_dates = <<3, 5, 4, 0>>
  /\ returned.out.longest_streak = 3

\* C30: calculate_streak never returns a current streak above the longest one.
C30_CurrentAtMostLongest ==
  returned.fn = "calculate_streak" =>
    returned.out.current_streak <= returned.out.longest_streak

====
